---- MODULE Spec2Model ----
(***************************************************************************)
(* SampleHeap (src/include/sampleheap.hpp): the sampling layer beneath the *)
(* allocator.  Every intercepted malloc / memalign / free is a frame on    *)
(* the calling thread's stack; a frame advances one statement (or one      *)
(* shared-memory access) per step, so that threads interleave between the  *)
(* unsynchronised reads and writes of the shared fields.  Calls issued by  *)
(* symbolication or by the record-write path are frames pushed on top of   *)
(* the frame that is handling the trigger.                                 *)
(***************************************************************************)
EXTENDS Integers, Sequences, FiniteSets, TLC

VARIABLES
  threads,                 \* the threads of the process
  samplerMode,             \* "always": a fake Sampler that triggers on every call
  whereMode,               \* "ok": symbolication always succeeds
  sizeClasses,             \* the block sizes the underlying allocator delivers
  stack,                   \* per thread: the intercepted calls in progress
  inMalloc,                \* per thread: the recursion guard's marker
  owner,                   \* underlying heap: who holds each address
  size,                    \* underlying heap: delivered size of each block
  issued,                  \* underlying heap: the highest address handed out
  lastMallocTrigger,       \* _lastMallocTrigger
  freedLastMallocTrigger,  \* _freedLastMallocTrigger
  pythonCount,             \* _pythonCount
  cCount,                  \* _cCount
  mallocTriggered,         \* mallocTriggered()
  freeTriggered,           \* freeTriggered()
  records,                 \* the lines appended to the sample file
  signals,                 \* the signals raised, in order
  aborted,                 \* an assert has failed
  calls,                   \* number of calls issued so far
  hist,                    \* the last two completed top-level calls
  disposition0,            \* per signal: its disposition before any SampleHeap
  disposition,             \* per signal: its disposition
  signalInitLock,          \* get_signal_init_lock(): the thread that holds it
  ctor,                    \* per thread: the constructor it is running
  inits,                   \* number of constructions begun so far
  freedSince               \* the address in _lastMallocTrigger has been
                           \* passed to free since it was stored

vars == <<threads, samplerMode, whereMode, sizeClasses, stack, inMalloc,
          owner, size, issued,
          lastMallocTrigger, freedLastMallocTrigger, pythonCount, cCount,
          mallocTriggered, freeTriggered, records, signals, aborted, calls,
          hist, disposition0, disposition, signalInitLock, ctor, inits,
          freedSince>>

sigVars == <<disposition0, disposition, signalInitLock, ctor, inits>>
heapVars == <<owner, size, issued>>
sampleVars == <<lastMallocTrigger, freedLastMallocTrigger, pythonCount, cCount,
                mallocTriggered, freeTriggered, records, signals>>
envVars == <<threads, samplerMode, whereMode, sizeClasses>>

(* ------------------------------ bounds -------------------------------- *)

\* addresses the underlying allocator hands out
MaxPtr == 2
\* calls issued in one run when one thread runs
MaxCalls == 4
\* calls issued in one run when two threads run
MaxCallsMT == 3
\* depth of the call stack of one thread
MaxDepth == 2
\* SampleHeap objects constructed in one run
MaxInits == 3

NullPtr == 0
Ptrs == 1..MaxPtr

\* the threads a process may run; `threads` are those of this process
Threads == {1, 2}

\* the sizes a caller requests
ReqSizes == {0, 8, 16}

CallBound == IF Cardinality(threads) = 1 THEN MaxCalls ELSE MaxCallsMT

(* ------------------- conditions and expressions of the code ----------- *)

\* the request size below which memalign does not bound the delivered size
SmallRequest == 16

\* the null check left out
AllocFailedNever(p) == FALSE

\* malloc / memalign: if (unlikely(ptr == nullptr)) return nullptr
AllocFailed(p) == p = NullPtr

\* the guard check left out
MallocQueriesSizeAlways(was) == TRUE

\* malloc: if (!g.wasInMalloc())
MallocQueriesSize(was) == ~was

\* malloc: if (realSize > 0)
MallocRegisters(realSize) == realSize > 0

\* malloc: register_malloc(realSize, ptr, false)
MallocOrigin == FALSE

\* memalign: if (!g.wasInMalloc())
MemalignQueriesSize(was) == ~was

\* the second assert bounding the requests below SmallRequest
MemalignAssertsBoundSmall(sz, realSize) ==
  /\ realSize >= sz
  /\ (sz >= SmallRequest \/ realSize <= 2 * sz)

\* memalign: the two asserts on the delivered size
MemalignAssertsHold(sz, realSize) ==
  /\ realSize >= sz
  /\ (sz < SmallRequest \/ realSize <= 2 * sz)

\* memalign: register_malloc(realSize, ptr), inPythonAllocator defaulted
MemalignOrigin == TRUE

\* register_malloc: assert(realSize)
RegisterMallocAssertHolds(realSize) == realSize # 0

\* free: if (!g.wasInMalloc())
FreeRegisters(was) == ~was

\* the comparison never succeeding
IsLastTriggerNever(ptr, last) == FALSE

\* register_free: ptr && (ptr == _lastMallocTrigger)
IsLastTrigger(ptr, last) == ptr # NullPtr /\ ptr = last

\* the result of symbolication ignored
WhereResolvedAlways(outcome) == TRUE

\* process_malloc / process_free: where != nullptr && where(filename, ...)
WhereResolved(outcome) == outcome = "ok"

\* process_free: writeCount(FreeSignal, sampleFree, nullptr, ...)
ProcessFreeAddress(ptr) == NullPtr

\* process_malloc: raise(MallocSignal)
ProcessMallocRaises == "MallocSignal"

\* process_free raising the signal of its own kind
ProcessFreeRaisesFreeSignal == "FreeSignal"

\* process_free: raise(MallocSignal)
ProcessFreeRaises == "MallocSignal"

\* writeCount: if (_pythonCount == 0) _pythonCount = 1
FixPythonCount(py) == IF py = 0 THEN 1 ELSE py

\* the kind character without the 'already freed' flag
RecordKindNoFlag(sig, freed) == IF sig = "MallocSignal" THEN "M" ELSE "F"

\* writeCount: the kind character
RecordKind(sig, freed) ==
  IF sig = "MallocSignal" THEN "M" ELSE IF freed THEN "f" ELSE "F"

\* the sequence number taken after the increment
SequenceNumberNext(m, f) == m + f + 1

\* writeCount: mallocTriggered() + freeTriggered()
SequenceNumber(m, f) == m + f

\* the increment left out
PlusPlusNot(n) == n

\* process_malloc: mallocTriggered()++; process_free: freeTriggered()++
PlusPlus(n) == n + 1

\* writeCount: _freedLastMallocTrigger ? _lastMallocTrigger : ptr
RecordAddress(freed, last, ptr) == IF freed THEN last ELSE ptr

\* bits in the significand of a float
FloatBits == 24

RECURSIVE Pow2(_)
Pow2(k) == IF k = 0 THEN 1 ELSE 2 * Pow2(k - 1)

\* the least full significand
FloatTop == Pow2(FloatBits - 1)

\* long division of r by d, one binary digit at a time, until the
\* significand is full; then round to nearest, ties to even
FloatRound(r, d, sig, exp) ==
  [nan |-> FALSE,
   sig |-> IF 2 * r > d \/ (2 * r = d /\ sig % 2 = 1) THEN sig + 1 ELSE sig,
   exp |-> exp]

RECURSIVE FloatDigits(_, _, _, _)
FloatDigits(r, d, sig, exp) ==
  IF sig >= FloatTop THEN FloatRound(r, d, sig, exp)
  ELSE FloatDigits(IF 2 * r >= d THEN 2 * r - d ELSE 2 * r, d,
                   IF 2 * r >= d THEN 2 * sig + 1 ELSE 2 * sig, exp + 1)

\* writeCount: (float)n / d, the value sig / 2^exp; 0 / 0 is not a number
FloatQuotient(n, d) ==
  IF d = 0 THEN [nan |-> TRUE, sig |-> 0, exp |-> 0]
  ELSE IF n = 0 THEN [nan |-> FALSE, sig |-> 0, exp |-> 0]
  ELSE FloatDigits(n % d, d, n \div d, 0)

\* writeCount: (float)_pythonCount / (_pythonCount + _cCount)
AttributionFraction(py, c) == FloatQuotient(py, py + c)

(* ------------------------- the collaborators -------------------------- *)

\* MallocRecursionGuard: g.wasInMalloc()
GuardWasInMalloc(marker) == marker

\* MallocRecursionGuard: the marker once the guard is constructed
GuardCtor(marker) == TRUE

\* MallocRecursionGuard: the marker once the guard is destroyed
GuardDtor(was, marker) == IF was THEN marker ELSE FALSE

\* Sampler::sample: 0, or the weight of the sample that has just triggered
SampleWeight(bytes) == IF bytes = 0 THEN 1 ELSE bytes
SampleOutcomes(bytes) ==
  IF samplerMode = "always" THEN {SampleWeight(bytes)}
  ELSE {0, SampleWeight(bytes)}

\* p_whereInPython: not set, or it fails, or it resolves the location
WhereOutcomes ==
  IF whereMode = "ok" THEN {"ok"} ELSE {"null", "fail", "ok"}

\* SuperHeap::malloc / memalign: failure, or an address not in use.
\* Addresses are opaque, so those never handed out are interchangeable:
\* the allocator takes the lowest of them, or any address that was freed.
AllocOutcomes ==
  {NullPtr} \cup {p \in Ptrs : owner[p] = "none" /\ p <= issued + 1}

\* SuperHeap::getSize
GetSize(p) == size[p]

(* ------------------------------ frames -------------------------------- *)

Top(t) == stack[t][Len(stack[t])]
Depth(t) == Len(stack[t])

\* who holds a block once the call that allocated it has returned: the
\* application, or the sampling layer's own work; until then it is "pending"
Holder(t) == IF Depth(t) > 1 THEN "lib" ELSE "app"
Caller(t) == IF Depth(t) > 0 THEN "lib" ELSE "app"

\* the sampling state as a call finds it (compared when the call returns)
Snapshot(t) ==
  IF Cardinality(threads) > 1
  THEN [last |-> NullPtr, freed |-> FALSE, py |-> 0, c |-> 0, mt |-> 0,
        ft |-> 0, nrec |-> 0, nsig |-> 0, guard |-> inMalloc[t]]
  ELSE
  [last |-> lastMallocTrigger, freed |-> freedLastMallocTrigger,
   py |-> pythonCount, c |-> cCount, mt |-> mallocTriggered,
   ft |-> freeTriggered, nrec |-> Len(records), nsig |-> Len(signals),
   guard |-> inMalloc[t]]

NewFrame(t, op, pc, sz, ptr) ==
  [op |-> op, pc |-> pc, sz |-> sz, ptr |-> ptr, realSize |-> 0,
   was |-> FALSE, inPy |-> FALSE, sample |-> 0, tmp |-> 0,
   wsig |-> "none", wptr |-> NullPtr, kind |-> "none", seq |-> 0,
   py |-> 0, c |-> 0, addr |-> NullPtr, match |-> FALSE,
   resolved |-> "none",
   nsamp |-> 0, nalloc |-> 0, nfree |-> 0, nsize |-> 0, sizeLate |-> FALSE,
   snap |-> Snapshot(t)]

SetTop(t, f) == [stack EXCEPT ![t] = [@ EXCEPT ![Len(@)] = f]]
Push(t, f) == [stack EXCEPT ![t] = Append(@, f)]
Pop(t) == [stack EXCEPT ![t] = SubSeq(@, 1, Len(@) - 1)]

At(t, pc) ==
  t \in threads /\ ~aborted /\ stack[t] # <<>> /\ Top(t).pc = pc

\* where a call of the sampling layer's own work can start: inside
\* symbolication and inside the append to the sample file
NestPoints == {"pm_where", "pf_where", "wc_write"}

\* Threads are interchangeable until they call: thread 1 is the one that
\* calls first.
CanCall(t) ==
  /\ t \in threads
  /\ (t = 1 \/ calls > 0)
  /\ ~aborted
  /\ calls < CallBound
  /\ IF stack[t] = <<>> THEN TRUE
     ELSE Depth(t) < MaxDepth /\ Top(t).pc \in NestPoints

(* --------------------------- the two signals -------------------------- *)

\* enum AllocSignal { MallocSignal = SIGXCPU, FreeSignal = SIGXFSZ }
Signals == {"MallocSignal", "FreeSignal"}

\* the handlers a host process may have installed
Handlers == {"h1", "h2"}
Dispositions == {"SIG_DFL", "SIG_IGN"} \cup Handlers

NoThread == 0

\* HL::PosixLock: lock() returns once no thread holds the lock
LockIsFree(holder) == holder = NoThread

\* a thread that is in no constructor
NoCtor == [pc |-> "none", old_malloc |-> "none", old_free |-> "none"]

\* the restore left out
SignalRestoresNever(old) == FALSE

\* SampleHeap(): if (old_malloc != SIG_DFL) / if (old_free != SIG_DFL)
SignalRestores(old) == old # "SIG_DFL"

\* what one run of the constructor leaves as the disposition of a signal
\* that had disposition d
AfterInit(d) == IF SignalRestores(d) THEN d ELSE "SIG_IGN"

(* ------------------------------- Init --------------------------------- *)

InitCalls(ts, classes, sampler, where) ==
  /\ threads = ts
  /\ sizeClasses = classes
  /\ samplerMode = sampler
  /\ whereMode = where
  /\ stack = [t \in Threads |-> <<>>]
  /\ inMalloc = [t \in Threads |-> FALSE]
  /\ owner = [p \in Ptrs |-> "none"]
  /\ size = [p \in Ptrs |-> 0]
  /\ issued = 0
  /\ lastMallocTrigger = NullPtr
  /\ freedLastMallocTrigger = FALSE
  /\ pythonCount = 0
  /\ cCount = 0
  /\ mallocTriggered = 0
  /\ freeTriggered = 0
  /\ records = <<>>
  /\ signals = <<>>
  /\ aborted = FALSE
  /\ calls = 0
  /\ hist = <<>>
  /\ freedSince = FALSE

\* one SampleHeap has been constructed in a process that had no handlers
InitWith(ts, classes, sampler, where) ==
  /\ InitCalls(ts, classes, sampler, where)
  /\ disposition0 = [s \in Signals |-> "SIG_DFL"]
  /\ disposition = [s \in Signals |-> AfterInit(disposition0[s])]
  /\ signalInitLock = NoThread
  /\ ctor = [t \in Threads |-> NoCtor]
  /\ inits = 1

Init == InitWith({1}, {0, 8}, "any", "any")
InitFake == InitWith({1}, {0, 8}, "always", "ok")
InitMT == InitWith(Threads, {8}, "any", "any")
InitSizes == InitWith({1}, {0, 16, 40}, "any", "ok")

\* no SampleHeap has been constructed yet; the host process has given each
\* signal a disposition
InitCtor ==
  /\ InitCalls(Threads, {8}, "any", "any")
  /\ disposition0 \in [Signals -> Dispositions]
  /\ disposition = disposition0
  /\ signalInitLock = NoThread
  /\ ctor = [t \in Threads |-> NoCtor]
  /\ inits = 0

(* --------------------------- calls begin ------------------------------ *)

\* the application, or the sampling layer's own work, calls malloc(sz)
CallMalloc(t) ==
  /\ CanCall(t)
  /\ \E sz \in ReqSizes :
       stack' = Push(t, NewFrame(t, "malloc", "m_enter", sz, NullPtr))
  /\ calls' = calls + 1
  /\ UNCHANGED <<envVars, sigVars, freedSince, inMalloc, heapVars, sampleVars, aborted, hist>>

\* ... calls memalign(alignment, sz)
CallMemalign(t) ==
  /\ CanCall(t)
  /\ \E sz \in ReqSizes :
       stack' = Push(t, NewFrame(t, "memalign", "ma_enter", sz, NullPtr))
  /\ calls' = calls + 1
  /\ UNCHANGED <<envVars, sigVars, freedSince, inMalloc, heapVars, sampleVars, aborted, hist>>

\* ... calls free(ptr) on null or on a block it holds
CallFree(t) ==
  /\ CanCall(t)
  /\ \E p \in {NullPtr} \cup {q \in Ptrs : owner[q] = Caller(t)} :
       /\ stack' = Push(t, NewFrame(t, "free", "f_enter", 0, p))
       /\ owner' = IF p = NullPtr THEN owner
                   ELSE [owner EXCEPT ![p] = "freeing"]
       /\ freedSince' = (freedSince \/ (p # NullPtr /\ p = lastMallocTrigger))
  /\ calls' = calls + 1
  /\ UNCHANGED <<envVars, sigVars, inMalloc, size, issued, sampleVars, aborted, hist>>

(* ------------------------------ malloc -------------------------------- *)

\* MallocRecursionGuard g; ptr = SuperHeap::malloc(sz); the null check;
\* the guard check; realSize = SuperHeap::getSize(ptr); if (realSize > 0)
MallocEnter(t) ==
  /\ At(t, "m_enter")
  /\ LET f == Top(t)
         was == GuardWasInMalloc(inMalloc[t])
     IN \E p \in AllocOutcomes, d \in sizeClasses :
          /\ inMalloc' = [inMalloc EXCEPT ![t] = GuardCtor(@)]
          /\ IF AllocFailed(p)
             THEN /\ UNCHANGED heapVars
                  /\ stack' = SetTop(t, [f EXCEPT !.was = was, !.sz = 0,
                                        !.nalloc = @ + 1, !.pc = "ret"])
             ELSE /\ owner' = [owner EXCEPT ![p] = "pending"]
                  /\ size' = [size EXCEPT ![p] = d]
                  /\ issued' = IF p > issued THEN p ELSE issued
                  /\ stack' = SetTop(t,
                       IF MallocQueriesSize(was)
                       THEN [f EXCEPT !.was = was, !.sz = 0, !.ptr = p,
                               !.nalloc = @ + 1,
                               !.realSize = d, !.nsize = @ + 1,
                               !.inPy = MallocOrigin,
                               !.pc = IF MallocRegisters(d)
                                      THEN "rm_sample" ELSE "ret"]
                       ELSE [f EXCEPT !.was = was, !.sz = 0, !.ptr = p,
                               !.nalloc = @ + 1,
                               !.pc = "ret"])
  /\ UNCHANGED <<envVars, sigVars, freedSince, sampleVars, aborted, calls, hist>>

(* ----------------------------- memalign ------------------------------- *)

\* MallocRecursionGuard g; ptr = SuperHeap::memalign(alignment, sz); the
\* null check; the guard check; realSize = getSize(ptr); the two asserts
MemalignEnter(t) ==
  /\ At(t, "ma_enter")
  /\ LET f == Top(t)
         was == GuardWasInMalloc(inMalloc[t])
     IN \E p \in AllocOutcomes, d \in sizeClasses :
          /\ inMalloc' = [inMalloc EXCEPT ![t] = GuardCtor(@)]
          /\ IF AllocFailed(p)
             THEN /\ UNCHANGED <<heapVars, aborted>>
                  /\ stack' = SetTop(t, [f EXCEPT !.was = was, !.sz = 0,
                                        !.nalloc = @ + 1, !.pc = "ret"])
             ELSE /\ owner' = [owner EXCEPT ![p] = "pending"]
                  /\ size' = [size EXCEPT ![p] = d]
                  /\ issued' = IF p > issued THEN p ELSE issued
                  /\ aborted' = (MemalignQueriesSize(was)
                                   /\ ~MemalignAssertsHold(f.sz, d))
                  /\ stack' = SetTop(t,
                       IF MemalignQueriesSize(was)
                       THEN [f EXCEPT !.was = was, !.ptr = p,
                               !.nalloc = @ + 1,
                               !.realSize = d, !.nsize = @ + 1,
                               !.inPy = MemalignOrigin,
                               !.pc = IF MemalignAssertsHold(f.sz, d)
                                      THEN "rm_sample" ELSE "ma_abort"]
                       ELSE [f EXCEPT !.was = was, !.sz = 0, !.ptr = p,
                               !.nalloc = @ + 1,
                               !.pc = "ret"])
  /\ UNCHANGED <<envVars, sigVars, freedSince, sampleVars, calls, hist>>

(* -------------------------- register_malloc --------------------------- *)

\* assert(realSize); sampleMalloc = _mallocSampler.sample(realSize)
RegisterMallocSample(t) ==
  /\ At(t, "rm_sample")
  /\ LET f == Top(t)
     IN IF RegisterMallocAssertHolds(f.realSize)
        THEN /\ \E w \in SampleOutcomes(f.realSize) :
                  stack' = SetTop(t, [f EXCEPT !.sample = w, !.nsamp = @ + 1,
                                               !.sz = 0, !.pc = "rm_load"])
             /\ UNCHANGED aborted
        ELSE /\ stack' = SetTop(t, [f EXCEPT !.pc = "rm_abort"])
             /\ aborted' = TRUE
  /\ UNCHANGED <<envVars, sigVars, freedSince, inMalloc, heapVars, sampleVars, calls, hist>>

\* _pythonCount += realSize / _cCount += realSize: the load
RegisterMallocLoad(t) ==
  /\ At(t, "rm_load")
  /\ LET f == Top(t)
     IN stack' = SetTop(t, [f EXCEPT
                   !.tmp = IF f.inPy THEN pythonCount ELSE cCount,
                   !.pc = "rm_store"])
  /\ UNCHANGED <<envVars, sigVars, freedSince, inMalloc, heapVars, sampleVars, aborted, calls, hist>>

\* ... the store; then if (sampleMalloc) process_malloc(sampleMalloc, ptr)
RegisterMallocStore(t) ==
  /\ At(t, "rm_store")
  /\ LET f == Top(t)
     IN /\ pythonCount' = IF f.inPy THEN f.tmp + f.realSize ELSE pythonCount
        /\ cCount' = IF f.inPy THEN cCount ELSE f.tmp + f.realSize
        /\ stack' = SetTop(t, [f EXCEPT !.tmp = 0,
                      !.pc = IF f.sample # 0 THEN "pm_where" ELSE "ret"])
  /\ UNCHANGED <<envVars, sigVars, freedSince, inMalloc, heapVars, lastMallocTrigger,
                 freedLastMallocTrigger, mallocTriggered, freeTriggered,
                 records, signals, aborted, calls, hist>>

(* -------------------------- process_malloc ---------------------------- *)

\* what symbolication answered, kept with the call for the claims
Resolved(o) == IF o = "ok" THEN "yes" ELSE "no"

\* where = p_whereInPython; if (where != nullptr && where(...)) writeCount(
\* MallocSignal, sampleMalloc, ptr, ...)
ProcessMallocWhere(t) ==
  /\ At(t, "pm_where")
  /\ LET f == Top(t)
     IN \E o \in WhereOutcomes :
          stack' = SetTop(t,
            IF WhereResolved(o)
            THEN [f EXCEPT !.wsig = "MallocSignal", !.wptr = f.ptr,
                           !.resolved = Resolved(o), !.pc = "wc_fix"]
            ELSE [f EXCEPT !.resolved = Resolved(o), !.pc = "ret"])
  /\ UNCHANGED <<envVars, sigVars, freedSince, inMalloc, heapVars, sampleVars, aborted, calls, hist>>

\* raise(MallocSignal)
ProcessMallocRaise(t) ==
  /\ At(t, "pm_raise")
  /\ signals' = Append(signals, ProcessMallocRaises)
  /\ stack' = SetTop(t, [Top(t) EXCEPT !.pc = "pm_last"])
  /\ UNCHANGED <<envVars, sigVars, freedSince, inMalloc, heapVars, lastMallocTrigger,
                 freedLastMallocTrigger, pythonCount, cCount, mallocTriggered,
                 freeTriggered, records, aborted, calls, hist>>

\* _lastMallocTrigger = ptr
ProcessMallocLast(t) ==
  /\ At(t, "pm_last")
  /\ lastMallocTrigger' = Top(t).ptr
  /\ freedSince' = FALSE
  /\ stack' = SetTop(t, [Top(t) EXCEPT !.pc = "pm_freed"])
  /\ UNCHANGED <<envVars, sigVars, inMalloc, heapVars, freedLastMallocTrigger,
                 pythonCount, cCount, mallocTriggered, freeTriggered, records,
                 signals, aborted, calls, hist>>

\* _freedLastMallocTrigger = false
ProcessMallocFreed(t) ==
  /\ At(t, "pm_freed")
  /\ freedLastMallocTrigger' = FALSE
  /\ stack' = SetTop(t, [Top(t) EXCEPT !.pc = "pm_counts"])
  /\ UNCHANGED <<envVars, sigVars, freedSince, inMalloc, heapVars, lastMallocTrigger, pythonCount,
                 cCount, mallocTriggered, freeTriggered, records, signals,
                 aborted, calls, hist>>

\* _pythonCount = 0; _cCount = 0
ProcessMallocCounts(t) ==
  /\ At(t, "pm_counts")
  /\ pythonCount' = 0
  /\ cCount' = 0
  /\ stack' = SetTop(t, [Top(t) EXCEPT !.pc = "pm_inc"])
  /\ UNCHANGED <<envVars, sigVars, freedSince, inMalloc, heapVars, lastMallocTrigger,
                 freedLastMallocTrigger, mallocTriggered, freeTriggered,
                 records, signals, aborted, calls, hist>>

\* mallocTriggered()++
ProcessMallocInc(t) ==
  /\ At(t, "pm_inc")
  /\ mallocTriggered' = PlusPlus(mallocTriggered)
  /\ stack' = SetTop(t, [Top(t) EXCEPT !.pc = "ret"])
  /\ UNCHANGED <<envVars, sigVars, freedSince, inMalloc, heapVars, lastMallocTrigger,
                 freedLastMallocTrigger, pythonCount, cCount, freeTriggered,
                 records, signals, aborted, calls, hist>>

(* ----------------------------- writeCount ----------------------------- *)

\* if (_pythonCount == 0) _pythonCount = 1
WriteCountFix(t) ==
  /\ At(t, "wc_fix")
  /\ pythonCount' = FixPythonCount(pythonCount)
  /\ stack' = SetTop(t, [Top(t) EXCEPT !.pc = "wc_args"])
  /\ UNCHANGED <<envVars, sigVars, freedSince, inMalloc, heapVars, lastMallocTrigger,
                 freedLastMallocTrigger, cCount, mallocTriggered,
                 freeTriggered, records, signals, aborted, calls, hist>>

\* the arguments of snprintf_: the kind, the sequence number, the fraction
WriteCountArgs(t) ==
  /\ At(t, "wc_args")
  /\ LET f == Top(t)
     IN stack' = SetTop(t, [f EXCEPT
          !.kind = RecordKind(f.wsig, freedLastMallocTrigger),
          !.seq = SequenceNumber(mallocTriggered, freeTriggered),
          !.py = pythonCount, !.c = cCount,
          !.pc = "wc_addr"])
  /\ UNCHANGED <<envVars, sigVars, freedSince, inMalloc, heapVars, sampleVars, aborted, calls, hist>>

\* ... the address: the second read of _freedLastMallocTrigger
WriteCountAddr(t) ==
  /\ At(t, "wc_addr")
  /\ LET f == Top(t)
     IN stack' = SetTop(t, [f EXCEPT
          !.addr = RecordAddress(freedLastMallocTrigger, lastMallocTrigger,
                                 f.wptr),
          !.pc = "wc_clear"])
  /\ UNCHANGED <<envVars, sigVars, freedSince, inMalloc, heapVars, sampleVars, aborted, calls, hist>>

\* _freedLastMallocTrigger = false
WriteCountClear(t) ==
  /\ At(t, "wc_clear")
  /\ freedLastMallocTrigger' = FALSE
  /\ stack' = SetTop(t, [Top(t) EXCEPT !.pc = "wc_write"])
  /\ UNCHANGED <<envVars, sigVars, freedSince, inMalloc, heapVars, lastMallocTrigger, pythonCount,
                 cCount, mallocTriggered, freeTriggered, records, signals,
                 aborted, calls, hist>>

\* the record as written, with the call that caused it (cause, arg, match,
\* flag0 and thread are not part of the line: they name the call for the
\* claims; flag0 is _freedLastMallocTrigger as the call found it)
RecordOf(t, f) ==
  [kind |-> f.kind, seq |-> f.seq, count |-> f.sample, py |-> f.py,
   c |-> f.c, frac |-> AttributionFraction(f.py, f.c), addr |-> f.addr,
   cause |-> f.op, arg |-> f.ptr, match |-> f.match, flag0 |-> f.snap.freed,
   thread |-> t]

\* process_free not raising the signal
AfterWriteCountNoRaise(op) == IF op = "free" THEN "pf_inc" ELSE "pm_raise"

\* writeCount returns into process_free or process_malloc, at the raise
AfterWriteCount(op) == IF op = "free" THEN "pf_raise" ELSE "pm_raise"

\* getSampleFile().writeToFile(buf), and the return to the caller
WriteCountWrite(t) ==
  /\ At(t, "wc_write")
  /\ LET f == Top(t)
     IN /\ records' = Append(records, RecordOf(t, f))
        /\ stack' = SetTop(t, [f EXCEPT
              !.wsig = "none", !.wptr = NullPtr, !.kind = "none", !.seq = 0,
              !.py = 0, !.c = 0, !.addr = NullPtr,
              !.pc = AfterWriteCount(f.op)])
  /\ UNCHANGED <<envVars, sigVars, freedSince, inMalloc, heapVars, lastMallocTrigger,
                 freedLastMallocTrigger, pythonCount, cCount, mallocTriggered,
                 freeTriggered, signals, aborted, calls, hist>>

(* -------------------------------- free -------------------------------- *)

\* MallocRecursionGuard g; the null check; the guard check;
\* realSize = SuperHeap::getSize(ptr)
FreeEnter(t) ==
  /\ At(t, "f_enter")
  /\ LET f == Top(t)
         was == GuardWasInMalloc(inMalloc[t])
     IN /\ inMalloc' = [inMalloc EXCEPT ![t] = GuardCtor(@)]
        /\ stack' = SetTop(t,
             IF f.ptr = NullPtr THEN [f EXCEPT !.was = was, !.pc = "ret"]
             ELSE IF FreeRegisters(was)
             THEN [f EXCEPT !.was = was, !.realSize = GetSize(f.ptr),
                            !.nsize = @ + 1,
                            !.sizeLate = (f.nfree > 0
                                          \/ owner[f.ptr] # "freeing"),
                            !.pc = "rf_sample"]
             ELSE [f EXCEPT !.was = was, !.pc = "f_release"])
  /\ UNCHANGED <<envVars, sigVars, freedSince, heapVars, sampleVars, aborted, calls, hist>>

\* SuperHeap::free(ptr)
FreeRelease(t) ==
  /\ At(t, "f_release")
  /\ LET f == Top(t)
     IN /\ owner' = [owner EXCEPT ![f.ptr] = "none"]
        /\ size' = [size EXCEPT ![f.ptr] = 0]
        /\ UNCHANGED issued
        /\ stack' = SetTop(t, [f EXCEPT !.nfree = @ + 1, !.pc = "ret"])
  /\ UNCHANGED <<envVars, sigVars, freedSince, inMalloc, sampleVars, aborted, calls, hist>>

(* --------------------------- register_free ---------------------------- *)

\* _mallocSampler.unsample(realSize); sampleFree = _freeSampler.sample(..)
RegisterFreeSample(t) ==
  /\ At(t, "rf_sample")
  /\ LET f == Top(t)
     IN \E w \in SampleOutcomes(f.realSize) :
          stack' = SetTop(t, [f EXCEPT !.sample = w, !.nsamp = @ + 2,
                                       !.pc = "rf_cmp"])
  /\ UNCHANGED <<envVars, sigVars, freedSince, inMalloc, heapVars, sampleVars, aborted, calls, hist>>

\* register_free returning past the release when nothing was sampled
AfterCompareNoRelease(f) == IF f.sample # 0 THEN "pf_where" ELSE "ret"

\* where free goes on after the comparison: process_free, or the release
AfterCompare(f) == IF f.sample # 0 THEN "pf_where" ELSE "f_release"

\* ptr && (ptr == _lastMallocTrigger): the read of _lastMallocTrigger
RegisterFreeCompare(t) ==
  /\ At(t, "rf_cmp")
  /\ LET f == Top(t)
         m == IsLastTrigger(f.ptr, lastMallocTrigger)
     IN stack' = SetTop(t, [f EXCEPT !.match = m,
                   !.pc = IF m THEN "rf_set" ELSE AfterCompare(f)])
  /\ UNCHANGED <<envVars, sigVars, freedSince, inMalloc, heapVars, sampleVars, aborted, calls, hist>>

\* _freedLastMallocTrigger = true
RegisterFreeSet(t) ==
  /\ At(t, "rf_set")
  /\ freedLastMallocTrigger' = TRUE
  /\ stack' = SetTop(t, [Top(t) EXCEPT !.pc = AfterCompare(Top(t))])
  /\ UNCHANGED <<envVars, sigVars, freedSince, inMalloc, heapVars, lastMallocTrigger, pythonCount,
                 cCount, mallocTriggered, freeTriggered, records, signals,
                 aborted, calls, hist>>

(* ---------------------------- process_free ---------------------------- *)

\* where = p_whereInPython; if (where != nullptr && where(...)) writeCount(
\* FreeSignal, sampleFree, nullptr, ...)
ProcessFreeWhere(t) ==
  /\ At(t, "pf_where")
  /\ LET f == Top(t)
     IN \E o \in WhereOutcomes :
          stack' = SetTop(t,
            IF WhereResolved(o)
            THEN [f EXCEPT !.wsig = "FreeSignal",
                           !.wptr = ProcessFreeAddress(f.ptr),
                           !.resolved = Resolved(o), !.pc = "wc_fix"]
            ELSE [f EXCEPT !.resolved = Resolved(o), !.pc = "f_release"])
  /\ UNCHANGED <<envVars, sigVars, freedSince, inMalloc, heapVars, sampleVars, aborted, calls, hist>>

\* raise(MallocSignal)
ProcessFreeRaise(t) ==
  /\ At(t, "pf_raise")
  /\ signals' = Append(signals, ProcessFreeRaises)
  /\ stack' = SetTop(t, [Top(t) EXCEPT !.pc = "pf_inc"])
  /\ UNCHANGED <<envVars, sigVars, freedSince, inMalloc, heapVars, lastMallocTrigger,
                 freedLastMallocTrigger, pythonCount, cCount, mallocTriggered,
                 freeTriggered, records, aborted, calls, hist>>

\* freeTriggered()++
ProcessFreeInc(t) ==
  /\ At(t, "pf_inc")
  /\ freeTriggered' = PlusPlus(freeTriggered)
  /\ stack' = SetTop(t, [Top(t) EXCEPT !.pc = "f_release"])
  /\ UNCHANGED <<envVars, sigVars, freedSince, inMalloc, heapVars, lastMallocTrigger,
                 freedLastMallocTrigger, pythonCount, cCount, mallocTriggered,
                 records, signals, aborted, calls, hist>>

(* ------------------------------ return -------------------------------- *)

\* a completed top-level call, as the single-threaded claims see it
HistEntry(f) ==
  [n |-> IF hist = <<>> THEN 1 ELSE hist[Len(hist)].n + 1,
   op |-> f.op, ptr |-> f.ptr, realSize |-> f.realSize,
   r0 |-> f.snap.nrec, r1 |-> Len(records),
   freedAfter |-> freedLastMallocTrigger]

LastTwo(s) == IF Len(s) > 2 THEN SubSeq(s, Len(s) - 1, Len(s)) ELSE s

\* the return: ~MallocRecursionGuard() restores the marker; the caller now
\* holds the block it was returned
Return(t) ==
  /\ At(t, "ret")
  /\ LET f == Top(t)
     IN /\ inMalloc' = [inMalloc EXCEPT ![t] = GuardDtor(f.was, @)]
        /\ stack' = Pop(t)
        /\ owner' = IF f.op # "free" /\ f.ptr # NullPtr
                    THEN [owner EXCEPT ![f.ptr] = Holder(t)] ELSE owner
        /\ hist' = IF Depth(t) = 1 /\ Cardinality(threads) = 1
                   THEN LastTwo(Append(hist, HistEntry(f))) ELSE hist
  /\ UNCHANGED <<envVars, sigVars, freedSince, size, issued, sampleVars, aborted, calls>>

(* --------------------------- specification ---------------------------- *)

Step(t) ==
  \/ CallMalloc(t) \/ CallMemalign(t) \/ CallFree(t)
  \/ MallocEnter(t) \/ MemalignEnter(t)
  \/ RegisterMallocSample(t) \/ RegisterMallocLoad(t)
  \/ RegisterMallocStore(t)
  \/ ProcessMallocWhere(t) \/ ProcessMallocRaise(t) \/ ProcessMallocLast(t)
  \/ ProcessMallocFreed(t) \/ ProcessMallocCounts(t) \/ ProcessMallocInc(t)
  \/ WriteCountFix(t) \/ WriteCountArgs(t) \/ WriteCountAddr(t)
  \/ WriteCountClear(t) \/ WriteCountWrite(t)
  \/ FreeEnter(t) \/ RegisterFreeSample(t) \/ RegisterFreeCompare(t)
  \/ RegisterFreeSet(t) \/ ProcessFreeWhere(t) \/ ProcessFreeRaise(t)
  \/ ProcessFreeInc(t) \/ FreeRelease(t) \/ Return(t)

Next == \E t \in Threads : Step(t)

\* one thread
Spec == Init /\ [][Next]_vars

\* one thread, a fake Sampler that triggers on every call, symbolication
\* that always succeeds
SpecFake == InitFake /\ [][Next]_vars

\* two threads
SpecMT == InitMT /\ [][Next]_vars

\* one thread, an allocator whose size classes lie around SmallRequest
SpecSizes == InitSizes /\ [][Next]_vars

(* ---------------------------- constructor ----------------------------- *)

callVars == <<stack, inMalloc, heapVars, sampleVars, aborted, calls, hist,
              freedSince>>

InCtor(t, pc) == t \in threads /\ ctor[t].pc = pc

\* SampleHeap(): the member initialisers and getSampleFile()
CtorBegin(t) ==
  /\ InCtor(t, "none")
  /\ inits < MaxInits
  /\ inits' = inits + 1
  /\ ctor' = [ctor EXCEPT ![t].pc = "lock"]
  /\ UNCHANGED <<envVars, callVars, disposition0, disposition, signalInitLock>>

\* get_signal_init_lock().lock()
CtorLock(t) ==
  /\ InCtor(t, "lock")
  /\ LockIsFree(signalInitLock)
  /\ signalInitLock' = t
  /\ ctor' = [ctor EXCEPT ![t].pc = "signal_malloc"]
  /\ UNCHANGED <<envVars, callVars, disposition0, disposition, inits>>

\* old_malloc = signal(MallocSignal, SIG_IGN)
CtorSignalMalloc(t) ==
  /\ InCtor(t, "signal_malloc")
  /\ disposition' = [disposition EXCEPT !["MallocSignal"] = "SIG_IGN"]
  /\ ctor' = [ctor EXCEPT ![t].old_malloc = disposition["MallocSignal"],
                          ![t].pc = "restore_malloc"]
  /\ UNCHANGED <<envVars, callVars, disposition0, signalInitLock, inits>>

\* if (old_malloc != SIG_DFL) signal(MallocSignal, old_malloc)
CtorRestoreMalloc(t) ==
  /\ InCtor(t, "restore_malloc")
  /\ disposition' = IF SignalRestores(ctor[t].old_malloc)
                    THEN [disposition EXCEPT
                            !["MallocSignal"] = ctor[t].old_malloc]
                    ELSE disposition
  /\ ctor' = [ctor EXCEPT ![t].pc = "signal_free"]
  /\ UNCHANGED <<envVars, callVars, disposition0, signalInitLock, inits>>

\* old_free = signal(FreeSignal, SIG_IGN)
CtorSignalFree(t) ==
  /\ InCtor(t, "signal_free")
  /\ disposition' = [disposition EXCEPT !["FreeSignal"] = "SIG_IGN"]
  /\ ctor' = [ctor EXCEPT ![t].old_free = disposition["FreeSignal"],
                          ![t].pc = "restore_free"]
  /\ UNCHANGED <<envVars, callVars, disposition0, signalInitLock, inits>>

\* if (old_free != SIG_DFL) signal(FreeSignal, old_free)
CtorRestoreFree(t) ==
  /\ InCtor(t, "restore_free")
  /\ disposition' = IF SignalRestores(ctor[t].old_free)
                    THEN [disposition EXCEPT
                            !["FreeSignal"] = ctor[t].old_free]
                    ELSE disposition
  /\ ctor' = [ctor EXCEPT ![t].pc = "unlock"]
  /\ UNCHANGED <<envVars, callVars, disposition0, signalInitLock, inits>>

\* get_signal_init_lock().unlock(); getpid(); the constructor returns
CtorUnlock(t) ==
  /\ InCtor(t, "unlock")
  /\ signalInitLock' = NoThread
  /\ ctor' = [ctor EXCEPT ![t] = NoCtor]
  /\ UNCHANGED <<envVars, callVars, disposition0, disposition, inits>>

CtorStep(t) ==
  \/ CtorBegin(t) \/ CtorLock(t)
  \/ CtorSignalMalloc(t) \/ CtorRestoreMalloc(t)
  \/ CtorSignalFree(t) \/ CtorRestoreFree(t)
  \/ CtorUnlock(t)

NextCtor == \E t \in Threads : CtorStep(t)

\* threads constructing SampleHeap objects, before any call
SpecCtor == InitCtor /\ [][NextCtor]_vars

(* ------------------------------ claims -------------------------------- *)

RecordIndexes == 1..Len(records)
Idle == \A t \in Threads : stack[t] = <<>>
CountKind(kinds) ==
  Cardinality({i \in RecordIndexes : records[i].kind \in kinds})

\* C1: every 'M' record reports the pointer returned by the allocation call
\* that caused the malloc trigger.
C1_MallocRecordReportsReturnedPointer ==
  \A i \in RecordIndexes :
    records[i].kind = "M" => records[i].addr = records[i].arg

\* the first call of the process was a malloc that returned a block of
\* non-zero size (the spec's malloc(1000); a live block's delivered size is
\* strictly positive)
FirstMalloc ==
  /\ hist # <<>>
  /\ hist[1].n = 1
  /\ hist[1].op = "malloc"
  /\ hist[1].ptr # NullPtr
  /\ hist[1].realSize > 0

\* C2 as stated: with a sampler that triggers on every call and
\* symbolication succeeding, the first malloc of a fresh process produces
\* exactly one record, of kind 'M', carrying sequence number 1.
C2_FirstMallocSequenceOne ==
  FirstMalloc =>
    /\ hist[1].r1 = 1
    /\ records[1].kind = "M"
    /\ records[1].seq = 1

\* C2: with a sampler that triggers on every call and symbolication
\* succeeding, the first malloc of a fresh process produces exactly one
\* record, of kind 'M', carrying sequence number 0.
C2_FirstMallocSequenceZero ==
  FirstMalloc =>
    /\ hist[1].r1 = 1
    /\ records[1].kind = "M"
    /\ records[1].seq = 0

C2_Witness ==
  /\ FirstMalloc
  /\ Len(hist) = 1
  /\ Len(records) = 1
  /\ Idle

\* a malloc returning p, a block of non-zero size (the spec's malloc(1000);
\* a live block's delivered size is strictly positive), was immediately
\* followed by free(p)
MallocThenFree ==
  /\ Len(hist) = 2
  /\ hist[1].op = "malloc"
  /\ hist[1].ptr # NullPtr
  /\ hist[1].realSize > 0
  /\ hist[2].op = "free"
  /\ hist[2].ptr = hist[1].ptr

\* the two calls wrote 'M' with p, then 'f' with p, and nothing else, and
\* the 'already freed' flag is false after the free
WroteMallocThenFreeOfLast ==
  LET p == hist[1].ptr
      first == hist[1].r0 + 1
  IN /\ hist[1].r1 = first
     /\ hist[2].r0 = first
     /\ hist[2].r1 = first + 1
     /\ records[first].kind = "M"
     /\ records[first].addr = p
     /\ records[first + 1].kind = "f"
     /\ records[first + 1].addr = p
     /\ ~hist[2].freedAfter

\* C3: with a sampler that triggers on every call and symbolication
\* succeeding, a malloc returning p immediately followed by free(p) on the
\* same thread produces exactly two records, 'M' with p and then 'f' with
\* p, and leaves the 'already freed' flag false.
C3_MallocThenFreeTwoRecords == MallocThenFree => WroteMallocThenFreeOfLast

C3_Witness ==
  /\ MallocThenFree
  /\ Len(records) >= 2
  /\ Idle

\* C4 as stated: the record of a free trigger has kind 'f' if and only if
\* the freed address equals the LastTriggerState address at that moment, and
\* kind 'F' otherwise.
C4_FreeOfLastIffAddressMatches ==
  \A i \in RecordIndexes :
    records[i].cause = "free" =>
      /\ records[i].kind \in {"f", "F"}
      /\ records[i].kind = "f" <=> records[i].match

\* C4: the record of a free trigger has kind 'f' if and only if the freed
\* address equals the LastTriggerState address at that moment or the
\* 'already freed' flag was already set when the free call began (an earlier
\* free of the last-trigger address that no record has reported yet); it
\* has kind 'F' otherwise.
C4_FreeOfLastIffFlagSet ==
  \A i \in RecordIndexes :
    records[i].cause = "free" =>
      /\ records[i].kind \in {"f", "F"}
      /\ records[i].kind = "f" <=> (records[i].match \/ records[i].flag0)

C4_Witness ==
  \E i \in RecordIndexes :
    /\ records[i].cause = "free"
    /\ records[i].kind = "f"
    /\ ~records[i].match
    /\ records[i].arg # NullPtr

\* C5: every 'F' record reports the pointer that was passed to the free call
\* that caused the trigger.
C5_FreeSampleReportsFreedPointer ==
  \A i \in RecordIndexes :
    records[i].kind = "F" => records[i].addr = records[i].arg

\* the sampler reported a trigger, symbolication did not resolve, and the
\* call is about to return
Suppressed(t) ==
  /\ stack[t] # <<>>
  /\ Top(t).pc = "ret"
  /\ Top(t).sample # 0
  /\ Top(t).resolved = "no"

\* no record, no signal, no trigger counter change, same last-trigger address
NothingReported(f) ==
  /\ Len(records) = f.snap.nrec
  /\ Len(signals) = f.snap.nsig
  /\ mallocTriggered = f.snap.mt
  /\ freeTriggered = f.snap.ft
  /\ lastMallocTrigger = f.snap.last

\* C6 as stated: a trigger whose symbolication fails appends no record,
\* raises no signal, changes neither trigger counter and leaves
\* LastTriggerState (address and flag) as the call found it.
C6_SuppressedSampleLeavesLastTrigger ==
  \A t \in threads :
    Suppressed(t) =>
      /\ NothingReported(Top(t))
      /\ freedLastMallocTrigger = Top(t).snap.freed

\* C6: a trigger whose symbolication fails appends no record, raises no
\* signal, changes neither trigger counter and leaves the LastTriggerState
\* address as the call found it; the 'already freed' flag is as the call
\* found it too, except that a free of the last-trigger address has set it.
C6_SuppressedSampleSetsOnlyFlag ==
  \A t \in threads :
    Suppressed(t) =>
      /\ NothingReported(Top(t))
      /\ freedLastMallocTrigger = (Top(t).snap.freed \/ Top(t).match)

C6_Witness ==
  \E t \in threads :
    /\ Suppressed(t)
    /\ Top(t).op = "free"
    /\ Top(t).match
    /\ ~Top(t).snap.freed

\* a malloc or memalign whose underlying allocation failed returns
ReturnsNull(t) ==
  /\ At(t, "ret")
  /\ Top(t).op \in {"malloc", "memalign"}
  /\ Top(t).ptr = NullPtr
  /\ stack' = Pop(t)

\* C7: when the underlying allocator fails, malloc and memalign return null
\* having called no sampler and changed no attribution counter, record,
\* signal, trigger counter or LastTriggerState, and the recursion guard is
\* as it was before the call.
C7_AllocFailureChangesNothing ==
  [][\A t \in Threads :
       ReturnsNull(t) =>
         LET f == Top(t)
         IN /\ f.nsamp = 0
            /\ f.nsize = 0
            /\ pythonCount' = f.snap.py
            /\ cCount' = f.snap.c
            /\ Len(records') = f.snap.nrec
            /\ Len(signals') = f.snap.nsig
            /\ mallocTriggered' = f.snap.mt
            /\ freeTriggered' = f.snap.ft
            /\ lastMallocTrigger' = f.snap.last
            /\ freedLastMallocTrigger' = f.snap.freed
            /\ inMalloc'[t] = f.snap.guard]_vars

C7_Witness ==
  \E t \in threads :
    /\ stack[t] # <<>>
    /\ Top(t).pc = "ret"
    /\ Top(t).op = "memalign"
    /\ Top(t).ptr = NullPtr
    /\ Top(t).nalloc = 1
    /\ Len(records) > 0

\* C8: a call made while the thread is already inside an intercepted call
\* performs the underlying allocate / free, calls no sampler, changes
\* neither attribution counter nor LastTriggerState, writes no record and
\* raises no signal; handling one trigger writes one record at most.
C8_NestedCallSkipsSampling ==
  \A t \in threads :
    /\ Depth(t) >= 2 =>
         LET f == Top(t)
         IN /\ f.nsamp = 0
            /\ pythonCount = f.snap.py
            /\ cCount = f.snap.c
            /\ lastMallocTrigger = f.snap.last
            /\ freedLastMallocTrigger = f.snap.freed
            /\ Len(records) = f.snap.nrec
            /\ Len(signals) = f.snap.nsig
            /\ f.pc = "ret" =>
                 IF f.op = "free" THEN f.ptr # NullPtr => f.nfree = 1
                 ELSE f.nalloc = 1
    /\ Depth(t) >= 1 => Len(records) <= stack[t][1].snap.nrec + 1

C8_Witness ==
  \E t \in threads :
    /\ Depth(t) = 2
    /\ Top(t).pc = "ret"
    /\ Top(t).op = "malloc"
    /\ Top(t).ptr # NullPtr
    /\ stack[t][1].pc = "wc_write"

\* C9: under every interleaving, a free(ptr) with non-null ptr passes ptr to
\* the underlying free exactly once, nested or not, and queries the size
\* before the release, never after; free(null) calls neither the underlying
\* free nor a sampler.
C9_FreeReleasesExactlyOnce ==
  \A t \in Threads :
    \A i \in 1..Len(stack[t]) :
      LET f == stack[t][i]
      IN f.op = "free" =>
           /\ f.nfree <= 1
           /\ ~f.sizeLate
           /\ f.pc = "ret" =>
                IF f.ptr = NullPtr
                THEN f.nfree = 0 /\ f.nsamp = 0 /\ f.nsize = 0
                ELSE f.nfree = 1

C9_Witness ==
  \E t \in Threads :
    /\ stack[t] # <<>>
    /\ Top(t).op = "free"
    /\ Top(t).pc = "ret"
    /\ Top(t).ptr # NullPtr
    /\ Top(t).nsize = 1
    /\ Top(t).nfree = 1
    /\ \E u \in Threads \ {t} : stack[u] # <<>> /\ Top(u).pc = "wc_write"

\* C10: whenever no intercepted call is in progress, the number of signals
\* raised equals the number of records appended, which equals the malloc
\* trigger counter plus the free trigger counter; the malloc trigger counter
\* is the number of 'M' records and the free trigger counter the number of
\* 'F' and 'f' records.
C10_SignalsRecordsAndCountersAgree ==
  Idle =>
    /\ Len(signals) = Len(records)
    /\ Len(records) = mallocTriggered + freeTriggered
    /\ mallocTriggered = CountKind({"M"})
    /\ freeTriggered = CountKind({"F", "f"})

C10_Witness ==
  /\ Idle
  /\ mallocTriggered >= 1
  /\ freeTriggered >= 1
  /\ \E i, j \in RecordIndexes : records[i].thread # records[j].thread

\* the managed counter with 1 in place of 0
Floor1(m) == IF m > 0 THEN m ELSE 1

\* C11: the attribution fraction of every record is the quotient, in the
\* record's float, of m' and m' + n, where m and n are the managed and the
\* native attribution counter read for the record and m' is m if m > 0 and
\* 1 otherwise; the denominator is never zero.
C11_FractionIsFlooredRatio ==
  \A i \in RecordIndexes :
    LET r == records[i]
    IN /\ Floor1(r.py) + r.c # 0
       /\ r.frac = FloatQuotient(Floor1(r.py), Floor1(r.py) + r.c)

\* a record written while managed and native counter both read zero
C11_Witness ==
  \E i \in RecordIndexes : records[i].py = 0 /\ records[i].frac.nan

\* C12: between two consecutive malloc triggers at most one record of kind
\* 'f' is written: the last-triggered pointer is reported as freed on its
\* first matching free only, also when the underlying allocator hands the
\* same address out again and that block is freed.
C12_OneFreedReportPerMallocTrigger ==
  \A i, j \in RecordIndexes :
    (i < j /\ records[i].kind = "f" /\ records[j].kind = "f") =>
      \E k \in RecordIndexes : i < k /\ k < j /\ records[k].kind = "M"

\* no constructor is running and one has run
Initialized == inits > 0 /\ \A t \in Threads : ctor[t] = NoCtor

\* C13: once any number of initialisations, one after another or at the
\* same time on several threads, have completed, each of the two signals is
\* ignored if its disposition before the first initialisation was the
\* default, and has the disposition it had before otherwise.
C13_InitKeepsInstalledHandlers ==
  Initialized =>
    \A s \in Signals :
      disposition[s] = IF disposition0[s] = "SIG_DFL" THEN "SIG_IGN"
                       ELSE disposition0[s]

\* two threads have been in the constructor at the same time, in a process
\* that had a handler for one signal and the default for the other
C13_Witness ==
  /\ disposition0["MallocSignal"] = "h1"
  /\ disposition0["FreeSignal"] = "SIG_DFL"
  /\ ctor[1].pc = "unlock"
  /\ ctor[2].pc = "lock"
  /\ inits = MaxInits

\* a call made by the application is about to return
Returning(t) == Depth(t) = 1 /\ Top(t).pc = "ret"

\* what an allocation adds to the counter of an origin
Counted(f, managed) == IF f.inPy = managed THEN f.realSize ELSE 0

\* an allocation call leaves both counters zero if it was a malloc trigger,
\* and has added the delivered size to the counter of its origin otherwise
AllocationCounts(f) ==
  IF mallocTriggered > f.snap.mt
  THEN pythonCount = 0 /\ cCount = 0
  ELSE /\ pythonCount = f.snap.py + Counted(f, TRUE)
       /\ cCount = f.snap.c + Counted(f, FALSE)

\* a free call leaves both counters as it found them
FreeKeepsCounts(f) == pythonCount = f.snap.py /\ cCount = f.snap.c

\* C14: with one thread, between calls each attribution counter is the sum
\* of the delivered sizes of the non-nested successful allocations of its
\* origin since the most recent malloc trigger, and zero right after a
\* malloc trigger (stated call by call: an allocation adds its delivered
\* size to the counter of its origin or, as a malloc trigger, leaves both
\* zero); a free call, whether it triggers or not, leaves both unchanged.
C14_CountersSumSinceMallocTrigger ==
  \A t \in threads :
    Returning(t) =>
      IF Top(t).op = "free" THEN FreeKeepsCounts(Top(t))
      ELSE AllocationCounts(Top(t))

\* the part of C14 that is about allocation calls
C14_AllocationPart ==
  \A t \in threads :
    (Returning(t) /\ Top(t).op # "free") => AllocationCounts(Top(t))

\* a non-nested memalign that was given a block has passed its two asserts,
\* or has failed one of them
MemalignAsserted(t) ==
  /\ stack[t] # <<>>
  /\ Top(t).op = "memalign"
  /\ Top(t).pc \in {"rm_sample", "ma_abort"}

\* C15 as stated: on a non-nested successful call the assertions of
\* memalign fail exactly when the delivered size is below the requested
\* size, or the request is below 16 bytes and the delivered size is above
\* twice the requested size.
C15_BoundForSmallRequests ==
  \A t \in threads :
    MemalignAsserted(t) =>
      (Top(t).pc = "ma_abort" <=>
         \/ Top(t).realSize < Top(t).sz
         \/ Top(t).sz < SmallRequest /\ Top(t).realSize > 2 * Top(t).sz)

\* C15: on a non-nested successful call the assertions of memalign fail
\* exactly when the delivered size is below the requested size, or the
\* request is of 16 bytes or more and the delivered size is above twice the
\* requested size; they never fail for a request below 16 bytes whose
\* delivered size is at least the requested size.
C15_BoundForLargeRequests ==
  \A t \in threads :
    MemalignAsserted(t) =>
      (Top(t).pc = "ma_abort" <=>
         \/ Top(t).realSize < Top(t).sz
         \/ Top(t).sz >= SmallRequest /\ Top(t).realSize > 2 * Top(t).sz)

\* a request of 16 bytes was delivered 40 and the assertion has failed
C15_Witness ==
  \E t \in threads :
    /\ MemalignAsserted(t)
    /\ Top(t).pc = "ma_abort"
    /\ Top(t).sz = SmallRequest
    /\ Top(t).realSize > 2 * SmallRequest

\* a request of 8 bytes was delivered 40 and the assertions have passed
C15_SmallRequestPasses ==
  \E t \in threads :
    /\ MemalignAsserted(t)
    /\ Top(t).pc = "rm_sample"
    /\ Top(t).sz > 0
    /\ Top(t).sz < SmallRequest
    /\ Top(t).realSize > 2 * Top(t).sz

\* a non-nested call that was given a block is about to return
ReturnsBlock(t, op) ==
  /\ Returning(t)
  /\ Top(t).op = op
  /\ Top(t).ptr # NullPtr
  /\ Top(t).realSize > 0

\* the record a call has written, if it has written one
Written(f) == records[f.snap.nrec + 1]

\* what a call with the origin of malloc leaves: both counters zero, one
\* more malloc trigger, the block as the last trigger, the flag clear and
\* one 'M' record if it was a malloc trigger; the delivered size added to
\* the counter of that origin and nothing else changed otherwise
LeavesAsMalloc(f) ==
  LET managed == IF MallocOrigin THEN f.realSize ELSE 0
      native == IF MallocOrigin THEN 0 ELSE f.realSize
  IN /\ freeTriggered = f.snap.ft
     /\ IF f.resolved = "yes"
        THEN /\ pythonCount = 0 /\ cCount = 0
             /\ mallocTriggered = f.snap.mt + 1
             /\ lastMallocTrigger = f.ptr
             /\ ~freedLastMallocTrigger
             /\ Len(records) = f.snap.nrec + 1
             /\ Written(f).kind = "M"
             /\ Written(f).count = f.sample
             /\ Written(f).frac =
                  AttributionFraction(Floor1(f.snap.py + managed),
                                      f.snap.c + native)
        ELSE /\ pythonCount = f.snap.py + managed
             /\ cCount = f.snap.c + native
             /\ mallocTriggered = f.snap.mt
             /\ lastMallocTrigger = f.snap.last
             /\ freedLastMallocTrigger = f.snap.freed
             /\ Len(records) = f.snap.nrec

\* a non-nested successful malloc leaves what LeavesAsMalloc says
C16_MallocLeaves ==
  \A t \in threads : ReturnsBlock(t, "malloc") => LeavesAsMalloc(Top(t))

\* C16: from the same state, with the same delivered size and the same
\* outcomes of the sampler and of symbolication, a non-nested successful
\* memalign leaves the attribution counters, the trigger counters and
\* LastTriggerState that a non-nested successful malloc leaves, and writes
\* the record it writes (same kind, weight and attribution fraction).
C16_MemalignLeavesWhatMallocLeaves ==
  \A t \in threads : ReturnsBlock(t, "memalign") => LeavesAsMalloc(Top(t))

\* a trigger has just raised its signal
Raised(t, op) ==
  /\ stack[t] # <<>>
  /\ Top(t).op = op
  /\ Top(t).pc = IF op = "free" THEN "pf_inc" ELSE "pm_last"

\* C17: every notification raised, for a malloc trigger and for a free
\* trigger alike, is the malloc signal; the free signal is never raised,
\* although the record of a free trigger has a free kind, 'F' or 'f'.
C17_OnlyMallocSignalRaised ==
  /\ \A i \in 1..Len(signals) :
       signals[i] = "MallocSignal" /\ signals[i] # "FreeSignal"
  /\ \A i \in RecordIndexes :
       records[i].cause = "free" => records[i].kind \in {"F", "f"}
  /\ \A t \in threads :
       (Depth(t) = 1 /\ (Raised(t, "free") \/ Raised(t, "malloc")
                         \/ Raised(t, "memalign"))) =>
         /\ Len(signals) = Top(t).snap.nsig + 1
         /\ signals[Len(signals)] = "MallocSignal"

\* a free trigger has written a record of a free kind and raised its signal
C17_Witness ==
  \E t \in threads :
    /\ Raised(t, "free")
    /\ Len(signals) = Len(records)
    /\ records[Len(records)].kind = "f"
    /\ \E i \in RecordIndexes : records[i].kind = "F"

\* thread u has written a record and not yet incremented its trigger counter
BeforeIncrement(u) ==
  /\ stack[u] # <<>>
  /\ Top(u).pc \in {"pm_raise", "pm_last", "pm_freed", "pm_counts", "pm_inc",
                     "pf_raise", "pf_inc"}

\* thread t reads the sequence number for the record it is about to write
ReadsSequenceNumber(t) == At(t, "wc_args") /\ stack'[t] # stack[t]

\* records written by one thread only are numbered one after the other
NumberedInOrder ==
  (\A i, j \in RecordIndexes : records[i].thread = records[j].thread) =>
    \A i \in RecordIndexes :
      i > 1 => records[i].seq = records[i - 1].seq + 1

\* two records with the same number were written by different threads
SameNumberOtherThread ==
  \A i, j \in RecordIndexes :
    (i # j /\ records[i].seq = records[j].seq) =>
      records[i].thread # records[j].thread

\* a thread reads a number that a record already carries only while the
\* thread that wrote that record has not yet incremented its counter
SameNumberReadBeforeIncrement ==
  \A t \in Threads :
    ReadsSequenceNumber(t) =>
      \A i \in RecordIndexes :
        records[i].seq = SequenceNumber(mallocTriggered, freeTriggered) =>
          records[i].thread # t /\ BeforeIncrement(records[i].thread)

C19_FlagMeansLastTriggerFreed == freedLastMallocTrigger => freedSince

\* a record of kind 'f' carries the address of the last malloc trigger, a
\* block that the application holds and has not passed to free
C19_LiveBlockReportedFreed ==
  /\ records # <<>>
  /\ records[Len(records)].kind = "f"
  /\ records[Len(records)].addr = lastMallocTrigger
  /\ lastMallocTrigger # NullPtr
  /\ owner[lastMallocTrigger] = "app"
  /\ ~freedSince

\* the calls in progress that have forwarded a size to register_malloc
Forwarded(op) ==
  {f \in UNION {{stack[t][i] : i \in 1..Len(stack[t])} : t \in Threads} :
     f.op = op /\ f.pc \in {"rm_sample", "rm_abort"}}

\* malloc never forwards a delivered size of 0
C20_MallocForwardsNonZero ==
  \A f \in Forwarded("malloc") :
    f.pc # "rm_abort" /\ RegisterMallocAssertHolds(f.realSize)

\* C20: the assertion of register_malloc that the delivered size is not
\* zero holds on every call path: neither malloc nor memalign forwards a
\* delivered size of 0, whatever the request (0 included) and whatever
\* the underlying allocator delivers, provided it is at least the request.
C20_DeliveredSizeNeverZero ==
  \A f \in Forwarded("malloc") \cup Forwarded("memalign") :
    f.pc # "rm_abort" /\ RegisterMallocAssertHolds(f.realSize)

====
